---- MODULE Spec2Model ----
(***************************************************************************)
(* Model of update_changelog.py: the script that merges the hook updates   *)
(* of a pre-commit.ci pull request body into the unreleased entry of a     *)
(* changelog.                                                              *)
(*                                                                         *)
(* Text is modelled as sequences of one-character strings.  Two characters *)
(* cannot be written inside a string literal of this language and are      *)
(* named: BackTick is U+0060, Arrow is U+2192.                             *)
(***************************************************************************)
EXTENDS Integers, Sequences, FiniteSets, TLC

(***************************************************************************)
(* Characters                                                              *)
(***************************************************************************)
BackTick == "BACKTICK"
Arrow == "U+2192"
Tab == "\t"

\* The printable ASCII characters in code point order, from U+0020.
Ascii ==
  << " ", "!", "\"", "#", "$", "%", "&", "'", "(", ")", "*", "+", ",", "-", ".", "/",
     "0", "1", "2", "3", "4", "5", "6", "7", "8", "9", ":", ";", "<", "=", ">", "?",
     "@", "A", "B", "C", "D", "E", "F", "G", "H", "I", "J", "K", "L", "M", "N", "O",
     "P", "Q", "R", "S", "T", "U", "V", "W", "X", "Y", "Z", "[", "\\", "]", "^", "_",
     BackTick, "a", "b", "c", "d", "e", "f", "g", "h", "i", "j", "k", "l", "m", "n", "o",
     "p", "q", "r", "s", "t", "u", "v", "w", "x", "y", "z", "{", "|", "}", "~" >>

Range(f) == { f[i] : i \in DOMAIN f }

AnyChar == Range(Ascii) \cup {Arrow, Tab}

\* Code point of a character.
OrdOf ==
  [ c \in AnyChar |->
      IF c = Arrow THEN 8594
      ELSE IF c = Tab THEN 9
      ELSE 31 + (CHOOSE i \in DOMAIN Ascii : Ascii[i] = c) ]

Lowercase ==
  { "a", "b", "c", "d", "e", "f", "g", "h", "i", "j", "k", "l", "m",
    "n", "o", "p", "q", "r", "s", "t", "u", "v", "w", "x", "y", "z" }

Uppercase ==
  { "A", "B", "C", "D", "E", "F", "G", "H", "I", "J", "K", "L", "M",
    "N", "O", "P", "Q", "R", "S", "T", "U", "V", "W", "X", "Y", "Z" }

Digit == { "0", "1", "2", "3", "4", "5", "6", "7", "8", "9" }

Alnum == Lowercase \cup Uppercase \cup Digit

\* \s of the re module, as far as it occurs in the modelled texts.
Space == { " ", Tab }

\* \w of the re module (ASCII part): what \b tells apart from the rest.
WordChar == Alnum \cup { "_" }

\* One character of str.lower: an upper case letter is 32 code points
\* below its lower case letter.
LowerChar ==
  [ c \in AnyChar |-> IF c \in Uppercase THEN Ascii[OrdOf[c] - 31 + 32] ELSE c ]

\* str.lower
Lower(s) == [ i \in 1..Len(s) |-> LowerChar[s[i]] ]

\* x in y, for two strings.
Contains(y, x) ==
  \E i \in 0..(Len(y) - Len(x)) : SubSeq(y, i + 1, i + Len(x)) = x

\* str.strip
RECURSIVE LStrip(_)
LStrip(s) ==
  IF s # <<>> /\ Head(s) \in Space THEN LStrip(Tail(s)) ELSE s

RECURSIVE RStrip(_)
RStrip(s) ==
  IF s # <<>> /\ s[Len(s)] \in Space THEN RStrip(SubSeq(s, 1, Len(s) - 1)) ELSE s

Strip(s) == RStrip(LStrip(s))

\* Lexicographic order of two strings by code point (str.__lt__).
RECURSIVE StrLess(_, _)
StrLess(a, b) ==
  IF b = <<>> THEN FALSE
  ELSE IF a = <<>> THEN TRUE
  ELSE IF OrdOf[Head(a)] # OrdOf[Head(b)] THEN OrdOf[Head(a)] < OrdOf[Head(b)]
  ELSE StrLess(Tail(a), Tail(b))

(***************************************************************************)
(* Regular expressions: the constructs the script's patterns use, matched  *)
(* the way re.match does (anchored at the start, greedy, backtracking,     *)
(* first success wins).                                                    *)
(***************************************************************************)
Unbounded == 0 - 1

Lit(cs) == [ t |-> "lit", cs |-> cs ]
\* Greedy [S]{lo,hi}: a repeated character class.
Many(S, lo, hi) == [ t |-> "many", s |-> S, lo |-> lo, hi |-> hi ]
Star(S) == Many(S, 0, Unbounded)
Plus(S) == Many(S, 1, Unbounded)
\* Greedy (?:xs){lo,hi}; xs is the sequence of nodes repeated.
Rep(xs, lo, hi) == [ t |-> "rep", xs |-> xs, lo |-> lo, hi |-> hi ]
Opt(xs) == Rep(xs, 0, 1)
\* Capturing group number n.
Grp(n, xs) == [ t |-> "grp", n |-> n, xs |-> xs ]
WordBoundary == [ t |-> "wb" ]

NoMatch == [ ok |-> FALSE ]
NoGroups == [ g \in 1..3 |-> <<>> ]

IsWordAt(s, i) == i >= 1 /\ i <= Len(s) /\ s[i] \in WordChar

Max(S) == CHOOSE x \in S : \A y \in S : y <= x

\* How many characters of s from position pos on are in the class S.
RunLength(s, pos, S) ==
  LET stop == CHOOSE k \in pos..(Len(s) + 1) :
                /\ k = Len(s) + 1 \/ s[k] \notin S
                /\ \A j \in pos..(k - 1) : s[j] \in S
  IN stop - pos

\* Of the results after[k] of matching the rest after k repetitions, the
\* one greedy backtracking finds first: the successful one of largest k.
FirstSuccess(after) ==
  IF \A k \in DOMAIN after : ~ after[k].ok THEN NoMatch
  ELSE after[Max({ k \in DOMAIN after : after[k].ok })]

\* Match the node sequence against s from position pos; the result is the
\* first successful match in backtracking order, or NoMatch.  (A result
\* used twice is bound by a set constructor, which computes it once.)
RECURSIVE Run(_, _, _, _)
Run(nodes, s, pos, caps) ==
  IF Len(nodes) = 0 THEN [ ok |-> TRUE, end |-> pos, caps |-> caps ]
  ELSE
    LET n == Head(nodes)
        rest == Tail(nodes)
    IN CASE n.t = "lit" ->
              IF pos + Len(n.cs) - 1 <= Len(s)
                 /\ SubSeq(s, pos, pos + Len(n.cs) - 1) = n.cs
              THEN Run(rest, s, pos + Len(n.cs), caps)
              ELSE NoMatch
         [] n.t = "many" ->
              \* The longest run is tried first, then one character less at
              \* a time.
              LET longest == RunLength(s, pos, n.s)
                  most == IF n.hi = Unbounded \/ longest < n.hi THEN longest ELSE n.hi
              IN CHOOSE r \in
                   { FirstSuccess(after) :
                       after \in { [ k \in n.lo..most |-> Run(rest, s, pos + k, caps) ] } } :
                   TRUE
         [] n.t = "rep" ->
              \* One more repetition is tried first, then none.
              LET again == Rep(n.xs,
                               IF n.lo > 0 THEN n.lo - 1 ELSE 0,
                               IF n.hi = Unbounded THEN Unbounded ELSE n.hi - 1)
              IN CHOOSE r \in
                   { IF more.ok THEN more
                     ELSE IF n.lo = 0 THEN Run(rest, s, pos, caps)
                     ELSE NoMatch :
                       more \in { IF n.hi = 0 THEN NoMatch
                                  ELSE Run(n.xs \o <<again>> \o rest, s, pos, caps) } } :
                   TRUE
         [] n.t = "grp" ->
              Run(n.xs \o << [ t |-> "close", n |-> n.n, from |-> pos ] >> \o rest,
                  s, pos, caps)
         [] n.t = "close" ->
              Run(rest, s, pos, [ caps EXCEPT ![n.n] = SubSeq(s, n.from, pos - 1) ])
         [] n.t = "wb" ->
              IF IsWordAt(s, pos - 1) # IsWordAt(s, pos)
              THEN Run(rest, s, pos, caps)
              ELSE NoMatch

\* re.match(pattern, s)
ReMatch(pattern, s) == Run(pattern, s, 1, NoGroups)

(***************************************************************************)
(* The patterns of the script                                              *)
(***************************************************************************)
\* _version_regex, its group numbered g
VersionRegex(g) ==
  << Opt(<< Lit(<<"v">>) >>),
     Grp(g, << Plus(Digit),
               Rep(<< Lit(<<".">>), Plus(Digit) >>, 0, 2) >>) >>

UrlHostChars == Alnum \cup { "-", "@", ":", "%", ".", "_", "+", "~", "#", "=" }
UrlPathChars ==
  Alnum \cup { "-", "(", ")", "@", ":", "%", "_", "+", ".", "~", "#", "?", "&", "/", "=" }

\* _url_regex, its group numbered 1
UrlRegex ==
  << Many(UrlHostChars, 1, 256),
     Lit(<<".">>),
     Many(Alnum \cup { "(", ")" }, 1, 6),
     Lit(<<"/">>),
     WordBoundary,
     Grp(1, << Star(UrlPathChars) >>) >>

HookNameChars == Alnum \cup { "_", "-", "/" }

\* The pattern parse_changelog matches every item against.
ChangelogHookRegex ==
  << Lit(<<"-">>), Plus(Space),
     Lit(<<"U", "p", "d", "a", "t", "e", " ", BackTick>>),
     Grp(1, << Plus(HookNameChars) >>),
     Lit(<<BackTick>>),
     Opt(<< Lit(<<" ", "h", "o", "o", "k">>) >>),
     Lit(<<" ", "t", "o", " ">>) >>
  \o VersionRegex(2)

\* The pattern parse_pull_request_body matches every stripped line against.
HookLineRegex ==
  << Lit(<<"-">>), Plus(Space), Lit(<<"[">>),
     Grp(1, << Star(AnyChar) >>),
     Lit(<<"]">>),
     Star(AnyChar) >>

\* The pattern parse_pull_request_body matches the bracketed label against.
PRHookRegex ==
  UrlRegex
  \o << Star(Space), Lit(<<":">>), Star(Space) >>
  \o VersionRegex(2)
  \o << Plus(Space), Lit(<<Arrow>>), Plus(Space) >>
  \o VersionRegex(3)

(***************************************************************************)
(* dict: the insertion-ordered mapping, a sequence of items with distinct  *)
(* keys.                                                                   *)
(***************************************************************************)
DictKeys(d) == [ i \in 1..Len(d) |-> d[i].k ]

DictHas(d, k) == \E i \in 1..Len(d) : d[i].k = k

DictGet(d, k) == d[CHOOSE i \in 1..Len(d) : d[i].k = k].v

\* d[k] = v: an existing key keeps its place.
DictSet(d, k, v) ==
  IF DictHas(d, k)
  THEN [ i \in 1..Len(d) |-> IF d[i].k = k THEN [ k |-> k, v |-> v ] ELSE d[i] ]
  ELSE Append(d, [ k |-> k, v |-> v ])

(***************************************************************************)
(* parse_changelog                                                         *)
(***************************************************************************)
RECURSIVE ParseItems(_, _, _, _)
\* Variant: the elif keeps every item that does not match, empty or not.
ParseItemsElifEverything(items, i, new_content, hook_data) ==
  IF i > Len(items) THEN [ new_content |-> new_content, hook_data |-> hook_data ]
  ELSE
    LET item == items[i]
        hook_match == ReMatch(ChangelogHookRegex, item)
    IN IF hook_match.ok
       THEN ParseItems(items, i + 1, new_content,
                       DictSet(hook_data, hook_match.caps[1], hook_match.caps[2]))
       ELSE ParseItems(items, i + 1, Append(new_content, item), hook_data)

\* The loop of parse_changelog from item i on.
ParseItems(items, i, new_content, hook_data) ==
  IF i > Len(items) THEN [ new_content |-> new_content, hook_data |-> hook_data ]
  ELSE
    LET item == items[i]
        hook_match == ReMatch(ChangelogHookRegex, item)
    IN IF hook_match.ok
       THEN ParseItems(items, i + 1, new_content,
                       DictSet(hook_data, hook_match.caps[1], hook_match.caps[2]))
       ELSE IF item # <<>>
       THEN ParseItems(items, i + 1, Append(new_content, item), hook_data)
       ELSE ParseItems(items, i + 1, new_content, hook_data)

parse_changelog(changelog_dict, section) ==
  ParseItems(changelog_dict.sections[section], 1, <<>>, <<>>)

(***************************************************************************)
(* parse_pull_request_body                                                 *)
(***************************************************************************)
pr_body_marker_start ==
  <<"<", "!", "-", "-", "p", "r", "e", "-", "c", "o", "m", "m", "i", "t", ".",
    "c", "i", " ", "s", "t", "a", "r", "t", "-", "-", ">">>

pr_body_marker_end ==
  <<"<", "!", "-", "-", "p", "r", "e", "-", "c", "o", "m", "m", "i", "t", ".",
    "c", "i", " ", "e", "n", "d", "-", "-", ">">>

\* re.search(pattern, s): the first position a match starts at.
ReSearch(pattern, s) ==
  LET starts == { p \in 1..(Len(s) + 1) : Run(pattern, s, p, NoGroups).ok }
  IN IF starts = {} THEN NoMatch
     ELSE Run(pattern, s, CHOOSE p \in starts : \A q \in starts : p <= q, NoGroups)

\* Variant: the label is searched for the pattern, not matched from its start.
HookLineUpdateSearch(line, new_hook_data) ==
  LET hook_line == ReMatch(HookLineRegex, Strip(line))
      hook_match == ReSearch(PRHookRegex, hook_line.caps[1])
  IN IF hook_line.ok /\ hook_match.ok
     THEN DictSet(new_hook_data, hook_match.caps[1], hook_match.caps[3])
     ELSE new_hook_data

\* What one line inside the markers adds to new_hook_data.
HookLineUpdate(line, new_hook_data) ==
  LET hook_line == ReMatch(HookLineRegex, Strip(line))
      hook_match == ReMatch(PRHookRegex, hook_line.caps[1])
  IN IF hook_line.ok /\ hook_match.ok
     THEN DictSet(new_hook_data, hook_match.caps[1], hook_match.caps[3])
     ELSE new_hook_data

RECURSIVE ScanBody(_, _, _, _)
\* Variant: the end marker resumes skipping, the loop goes on.
ScanBodyNoBreak(lines, i, skip, new_hook_data) ==
  IF i > Len(lines) THEN new_hook_data
  ELSE IF Strip(lines[i]) = pr_body_marker_start
  THEN ScanBody(lines, i + 1, FALSE, new_hook_data)
  ELSE IF skip
  THEN ScanBody(lines, i + 1, skip, new_hook_data)
  ELSE IF Strip(lines[i]) = pr_body_marker_end
  THEN ScanBody(lines, i + 1, TRUE, new_hook_data)
  ELSE ScanBody(lines, i + 1, skip, HookLineUpdate(lines[i], new_hook_data))

\* The loop of parse_pull_request_body from line i on.
ScanBody(lines, i, skip, new_hook_data) ==
  IF i > Len(lines) THEN new_hook_data
  ELSE IF Strip(lines[i]) = pr_body_marker_start
  THEN ScanBody(lines, i + 1, FALSE, new_hook_data)
  ELSE IF skip
  THEN ScanBody(lines, i + 1, skip, new_hook_data)
  ELSE IF Strip(lines[i]) = pr_body_marker_end
  THEN new_hook_data
  ELSE ScanBody(lines, i + 1, skip, HookLineUpdate(lines[i], new_hook_data))

\* pr_body is the sequence pr_body.splitlines() yields.
parse_pull_request_body(pr_body) == ScanBody(pr_body, 1, TRUE, <<>>)

(***************************************************************************)
(* The merge and the generated lines of udpate_changelog_from_pr_body      *)
(***************************************************************************)
\* any(hook.lower() in new_hook.lower() for new_hook in new_hook_data)
AnyContains(new_hook_data, hook) ==
  \E j \in 1..Len(new_hook_data) :
    Contains(Lower(new_hook_data[j].k), Lower(hook))

RECURSIVE MergeLoop(_, _, _)
\* Variant: every prior hook is written over new_hook_data.
MergeLoopOverwrite(hook_data, i, new_hook_data) ==
  IF i > Len(hook_data) THEN new_hook_data
  ELSE MergeLoop(hook_data, i + 1,
                 DictSet(new_hook_data, hook_data[i].k, hook_data[i].v))

\* The loop over hook_data.items() from item i on; new_hook_data is the
\* dict the loop itself adds to.
MergeLoop(hook_data, i, new_hook_data) ==
  IF i > Len(hook_data) THEN new_hook_data
  ELSE IF ~ AnyContains(new_hook_data, hook_data[i].k)
  THEN MergeLoop(hook_data, i + 1,
                 DictSet(new_hook_data, hook_data[i].k, hook_data[i].v))
  ELSE MergeLoop(hook_data, i + 1, new_hook_data)

\* One step of a stable sort by str.lower: k goes after every name that
\* does not compare greater.
InsertByLower(sorted, k) ==
  LET before == { i \in 1..Len(sorted) : ~ StrLess(Lower(k), Lower(sorted[i])) }
      n == Cardinality(before)
  IN SubSeq(sorted, 1, n) \o <<k>> \o SubSeq(sorted, n + 1, Len(sorted))

RECURSIVE SortLoop(_, _, _)
SortLoop(names, i, sorted) ==
  IF i > Len(names) THEN sorted
  ELSE SortLoop(names, i + 1, InsertByLower(sorted, names[i]))

\* Variant: the names in the order of the dict, unsorted.
SortedInsertionOrder(new_hook_data) == DictKeys(new_hook_data)

\* sorted(new_hook_data, key=str.lower)
SortedByLower(new_hook_data) == SortLoop(DictKeys(new_hook_data), 1, <<>>)

\* f'-   Update `{hook_name}` hook to v{version}'
FormatLine(hook_name, version) ==
  <<"-", " ", " ", " ", "U", "p", "d", "a", "t", "e", " ", BackTick>>
  \o hook_name
  \o <<BackTick, " ", "h", "o", "o", "k", " ", "t", "o", " ", "v">>
  \o version

\* The lines the second loop appends to new_content.
GeneratedLines(new_hook_data) ==
  LET names == SortedByLower(new_hook_data)
  IN [ i \in 1..Len(names) |-> FormatLine(names[i], DictGet(new_hook_data, names[i])) ]

(***************************************************************************)
(* get_changelog.  A changelog, in the file and as the dict                *)
(* keepachangelog.to_dict returns, is a record: keys, the version keys in  *)
(* the order of the entries; url, the compare URL of the unreleased entry; *)
(* sections, the lines of each section of the unreleased entry.            *)
(***************************************************************************)
Unreleased == <<"u", "n", "r", "e", "l", "e", "a", "s", "e", "d">>

SectionNames == { "repository", "added" }

NoSections == [ n \in SectionNames |-> <<>> ]

clean_version_str(version) ==
  IF version # <<>> /\ Head(version) \in { "v", "V" } THEN Tail(version) ELSE version

\* s.split(sep)
RECURSIVE Split(_, _)
Split(s, sep) ==
  IF \A i \in 1..Len(s) : s[i] # sep THEN << s >>
  ELSE LET i == CHOOSE j \in 1..Len(s) : s[j] = sep /\ \A m \in 1..(j - 1) : s[m] # sep
       IN << SubSeq(s, 1, i - 1) >> \o Split(SubSeq(s, i + 1, Len(s)), sep)

\* int(digits)
RECURSIVE ToInt(_)
ToInt(digits) ==
  IF digits = <<>> THEN 0
  ELSE 10 * ToInt(SubSeq(digits, 1, Len(digits) - 1)) + (OrdOf[digits[Len(digits)]] - 48)

\* keepachangelog's reading of major.minor.patch[-prerelease]
to_semantic(version) ==
  LET dash == Split(version, "-")
      core == Split(dash[1], ".")
  IN [ major |-> ToInt(core[1]), minor |-> ToInt(core[2]), patch |-> ToInt(core[3]),
       prerelease |-> SubSeq(version, Len(dash[1]) + 2, Len(version)) ]

\* Semantic version precedence: the numbers first, then a pre-release
\* before its release.
SemanticLess(a, b) ==
  LET x == to_semantic(a)
      y == to_semantic(b)
  IN IF x.major # y.major THEN x.major < y.major
     ELSE IF x.minor # y.minor THEN x.minor < y.minor
     ELSE IF x.patch # y.patch THEN x.patch < y.patch
     ELSE IF (x.prerelease = <<>>) # (y.prerelease = <<>>) THEN y.prerelease = <<>>
     ELSE StrLess(x.prerelease, y.prerelease)

InsertSemantic(sorted, v) ==
  LET before == { i \in 1..Len(sorted) : ~ SemanticLess(v, sorted[i]) }
      n == Cardinality(before)
  IN SubSeq(sorted, 1, n) \o <<v>> \o SubSeq(sorted, n + 1, Len(sorted))

RECURSIVE SemanticSortLoop(_, _, _)
SemanticSortLoop(versions, i, sorted) ==
  IF i > Len(versions) THEN sorted
  ELSE SemanticSortLoop(versions, i + 1, InsertSemantic(sorted, versions[i]))

\* keepachangelog.to_sorted_semantic: the version strings, lowest first
\* (the first item of each of its pairs).
to_sorted_semantic(versions) == SemanticSortLoop(versions, 1, <<>>)

CompareUrl(version_name) ==
  <<"h", "t", "t", "p", "s", ":", "/", "/", "g", "i", "t", "h", "u", "b", ".",
    "c", "o", "m", "/", "T", "a", "k", "i", "s", "h", "i", "m", "a", "/", "f",
    "l", "a", "k", "e", "8", "-", "s", "e", "c", "u", "r", "e", "-", "c", "o",
    "d", "i", "n", "g", "-", "s", "t", "a", "n", "d", "a", "r", "d", "/", "c",
    "o", "m", "p", "a", "r", "e", "/">>
  \o version_name
  \o <<".", ".", ".", "H", "E", "A", "D">>

\* next(version for version in versions if last_version in version)
FirstContaining(versions, last_version) ==
  versions[CHOOSE i \in 1..Len(versions) :
             /\ Contains(versions[i], last_version)
             /\ \A j \in 1..(i - 1) : ~ Contains(versions[j], last_version)]

\* Variant: no version entry gives an entry with an empty version name.
get_changelogDefaultsWhenEmpty(f) ==
  IF \E i \in 1..Len(f.keys) : f.keys[i] = Unreleased
  THEN [ ok |-> TRUE, changelog |-> f ]
  ELSE [ ok |-> TRUE,
         changelog |-> [ keys |-> << Unreleased >> \o f.keys,
                         url |-> CompareUrl(<<>>),
                         sections |-> NoSections ] ]

\* The result of get_changelog on the file f: the dict, or the IndexError
\* of [-1] on an empty list.
get_changelog(f) ==
  IF \E i \in 1..Len(f.keys) : f.keys[i] = Unreleased
  THEN [ ok |-> TRUE, changelog |-> f ]
  ELSE
    LET versions == f.keys
        sorted == to_sorted_semantic(
                    [ i \in 1..Len(versions) |-> clean_version_str(versions[i]) ])
    IN IF sorted = <<>> THEN [ ok |-> FALSE, error |-> "IndexError" ]
       ELSE [ ok |-> TRUE,
              changelog |-> [ keys |-> << Unreleased >> \o f.keys,
                              url |-> CompareUrl(
                                        FirstContaining(versions, sorted[Len(sorted)])),
                              sections |-> NoSections ] ]

\* The section main passes to udpate_changelog_from_pr_body.
MainTargetSection(args) == "repository"

(***************************************************************************)
(* Inputs: the changelog files, pull request bodies and options the script *)
(* is run on.                                                              *)
(***************************************************************************)
MaxPrior == 2
MaxPR == 2
MaxBody == 4
MaxSection == 3
MaxVersions == 2
MaxRuns == 2

SeqsUpTo(S, n) == UNION { [ 1..k -> S ] : k \in 0..n }

\* Hook names, and versions, as a changelog or a pull request may hold them.
PriorNames ==
  { <<"b", "l", "a", "c", "k">>, <<"B", "l", "a", "c", "k">>,
    <<"p", "s", "f", "/", "b", "l", "a", "c", "k">> }
PRNames == PriorNames \cup { <<"y", ".", "g", "i", "t">> }
PriorVersions == { <<"1">>, <<"2">> }
PRVersions == { <<"2">> }

DistinctNames(entries) ==
  \A i, j \in 1..Len(entries) : i # j => entries[i][1] # entries[j][1]

\* A changelog line as a person writes it: - Update [name] hook to v[version]
PriorLine(e) ==
  <<"-", " ", "U", "p", "d", "a", "t", "e", " ", BackTick>> \o e[1]
  \o <<BackTick, " ", "h", "o", "o", "k", " ", "t", "o", " ", "v">> \o e[2]

\* A line as pre-commit.ci writes it: - [github.com/[name]: 1 -> [version]](u)
PRLine(e) ==
  <<"-", " ", "[", "g", "i", "t", "h", "u", "b", ".", "c", "o", "m", "/">> \o e[1]
  \o <<":", " ", "1", " ", Arrow, " ">> \o e[2] \o <<"]", "(", "u", ")">>

\* Lines of a pull request body: the start marker, a padded end marker,
\* two update lines of one hook (the second padded, with v prefixes).
BodyLines ==
  { pr_body_marker_start,
    <<" ">> \o pr_body_marker_end \o <<" ", " ">>,
    <<"-", " ", "[", "x", ".", "i", "o", "/", "b", "l", "a", "c", "k", ":", " ",
      "1", " ", Arrow, " ", "2", "]">>,
    <<" ", " ", "-", " ", "[", "x", ".", "i", "o", "/", "b", "l", "a", "c", "k",
      ":", " ", "v", "1", " ", Arrow, " ", "v", "3", "]", "(", "u", ")", " ">> }

\* Lines of a changelog section: two hook updates (the second without
\* the word hook and the v), a note, an update without its bullet, and
\* the empty line.
SectionLines ==
  { <<"-", " ", "U", "p", "d", "a", "t", "e", " ", BackTick, "b", "l", "a", "c",
      "k", BackTick, " ", "h", "o", "o", "k", " ", "t", "o", " ", "v", "1">>,
    <<"-", " ", " ", " ", "U", "p", "d", "a", "t", "e", " ", BackTick, "p", "s",
      "f", "/", "b", "l", "a", "c", "k", BackTick, " ", "t", "o", " ", "2", ".", "0">>,
    <<"-", " ", "F", "i", "x", "e", "d", " ", "x">>,
    <<"U", "p", "d", "a", "t", "e", " ", BackTick, "b", BackTick, " ", "h", "o",
      "o", "k", " ", "t", "o", " ", "v", "1">>,
    <<>> }

\* Version keys of changelog entries.
VersionKeys ==
  { <<"2", ".", "0", ".", "0">>, <<"v", "2", ".", "1", ".", "0">>,
    <<"V", "1", "0", ".", "0", ".", "0">>,
    <<"1", "0", ".", "0", ".", "0", "-", "r", "c", "1">>,
    <<"v", "9", ".", "0", ".", "0">> }

DistinctVersions(keys) ==
  \A i, j \in 1..Len(keys) :
    i # j => clean_version_str(keys[i]) # clean_version_str(keys[j])

DefaultBody ==
  << pr_body_marker_start,
     PRLine(<< <<"p", "s", "f", "/", "b", "l", "a", "c", "k">>, <<"2">> >>),
     pr_body_marker_end >>

DefaultFile ==
  [ keys |-> << Unreleased, <<"2", ".", "0", ".", "0">> >>,
    url |-> CompareUrl(<<"2", ".", "0", ".", "0">>),
    sections |->
      [ n \in SectionNames |->
          IF n = "repository"
          THEN << PriorLine(<< <<"b", "l", "a", "c", "k">>, <<"1">> >>) >>
          ELSE << <<"-", " ", "F", "i", "x", "e", "d", " ", "x">> >> ] ]

FileWithRepository(items) ==
  [ DefaultFile EXCEPT !.sections = [ n \in SectionNames |->
                                        IF n = "repository" THEN items ELSE <<>> ] ]

\* The end-to-end example: the changelog line and the pull request line.
ExampleItem ==
  <<"-", " ", "U", "p", "d", "a", "t", "e", " ", BackTick, "b", "l", "a", "c", "k",
    BackTick, " ", "h", "o", "o", "k", " ", "t", "o", " ", "v", "2", "2", ".", "1",
    ".", "0">>

ExampleBody ==
  << pr_body_marker_start,
     <<"-", " ", "[", " ", "]", " ", "[", "p", "s", "f", "/", "b", "l", "a", "c",
       "k", ".", "g", "i", "t", "h", "u", "b", ".", "i", "o", "/", "p", "a", "t",
       "h", ":", " ", "v", "2", "2", ".", "1", ".", "0", " ", Arrow, " ", "v", "2",
       "3", ".", "0", ".", "0", "]">>,
     pr_body_marker_end >>

(***************************************************************************)
(* The state: the changelog file, the command line, and the variables of   *)
(* main and udpate_changelog_from_pr_body.                                 *)
(***************************************************************************)
VARIABLES pc, runs, file, argv, args, target_section, changelog, new_content,
          hook_data, new_hook_data, error

vars == << pc, runs, file, argv, args, target_section, changelog, new_content,
           hook_data, new_hook_data, error >>

NoArgs == [ pr_body |-> <<>>, target_section |-> "unset" ]
NoChangelog == [ keys |-> <<>>, url |-> <<>>, sections |-> NoSections ]

Unset ==
  /\ args = NoArgs
  /\ target_section = "unset"
  /\ changelog = NoChangelog
  /\ new_content = <<>>
  /\ hook_data = <<>>
  /\ new_hook_data = <<>>
  /\ error = "none"

\* The script is started on the file f with --pr-body body and
\* --target-section option (or without that option: "absent").
Start(f, body, option) ==
  /\ pc = "main"
  /\ runs = 1
  /\ file = f
  /\ argv = [ pr_body |-> body, target_section |-> option ]
  /\ Unset

InitMerge ==
  \E prior \in SeqsUpTo(PriorNames \X PriorVersions, MaxPrior),
     pr \in SeqsUpTo(PRNames \X PRVersions, MaxPR) :
    /\ DistinctNames(prior)
    /\ DistinctNames(pr)
    /\ Start(FileWithRepository([ i \in 1..Len(prior) |-> PriorLine(prior[i]) ]),
             << pr_body_marker_start >> \o [ i \in 1..Len(pr) |-> PRLine(pr[i]) ]
               \o << pr_body_marker_end >>,
             "absent")

InitBody ==
  \E body \in SeqsUpTo(BodyLines, MaxBody) : Start(DefaultFile, body, "absent")

InitSection ==
  \E items \in SeqsUpTo(SectionLines, MaxSection) :
    Start(FileWithRepository(items), DefaultBody, "absent")

InitLoader ==
  \E keys \in SeqsUpTo(VersionKeys, MaxVersions) :
    /\ DistinctVersions(keys)
    /\ Start([ keys |-> keys, url |-> <<>>, sections |-> NoSections ],
             DefaultBody, "absent")

InitOption ==
  \E option \in SectionNames \cup { "absent" } : Start(DefaultFile, DefaultBody, option)

InitExample == Start(FileWithRepository(<< ExampleItem >>), ExampleBody, "absent")

Init == InitMerge \/ InitBody \/ InitSection \/ InitLoader \/ InitOption \/ InitExample

(***************************************************************************)
(* The steps of one run                                                    *)
(***************************************************************************)
\* main: parse the command line, call udpate_changelog_from_pr_body.
Main ==
  /\ pc = "main"
  /\ args' = [ pr_body |-> argv.pr_body,
               target_section |-> IF argv.target_section = "absent"
                                  THEN "repository"
                                  ELSE argv.target_section ]
  /\ target_section' = MainTargetSection(args')
  /\ pc' = "get_changelog"
  /\ UNCHANGED << runs, file, argv, changelog, new_content, hook_data,
                  new_hook_data, error >>

GetChangelog ==
  /\ pc = "get_changelog"
  /\ get_changelog(file).ok
  /\ changelog' = get_changelog(file).changelog
  /\ pc' = "parse_changelog"
  /\ UNCHANGED << runs, file, argv, args, target_section, new_content, hook_data,
                  new_hook_data, error >>

\* get_changelog raises; nothing catches it and the process ends.
GetChangelogRaises ==
  /\ pc = "get_changelog"
  /\ ~ get_changelog(file).ok
  /\ error' = get_changelog(file).error
  /\ pc' = "failed"
  /\ UNCHANGED << runs, file, argv, args, target_section, changelog, new_content,
                  hook_data, new_hook_data >>

ParseChangelog ==
  /\ pc = "parse_changelog"
  /\ new_content' = parse_changelog(changelog, target_section).new_content
  /\ hook_data' = parse_changelog(changelog, target_section).hook_data
  /\ pc' = "parse_pull_request_body"
  /\ UNCHANGED << runs, file, argv, args, target_section, changelog,
                  new_hook_data, error >>

ParsePullRequestBody ==
  /\ pc = "parse_pull_request_body"
  /\ new_hook_data' = parse_pull_request_body(args.pr_body)
  /\ pc' = "merge"
  /\ UNCHANGED << runs, file, argv, args, target_section, changelog, new_content,
                  hook_data, error >>

\* The first loop: carry forward the hooks of the changelog.
MergeHookData ==
  /\ pc = "merge"
  /\ new_hook_data' = MergeLoop(hook_data, 1, new_hook_data)
  /\ pc' = "generate"
  /\ UNCHANGED << runs, file, argv, args, target_section, changelog, new_content,
                  hook_data, error >>

\* The second loop: append one line per hook.
AppendGeneratedLines ==
  /\ pc = "generate"
  /\ new_content' = new_content \o GeneratedLines(new_hook_data)
  /\ pc' = "write"
  /\ UNCHANGED << runs, file, argv, args, target_section, changelog, hook_data,
                  new_hook_data, error >>

\* Assign the section and write the file.  The file is held as the dict
\* keepachangelog presents it as: the text keepachangelog.from_dict and
\* mdformat produce is the work of those libraries and is not modelled.
WriteChangelog ==
  /\ pc = "write"
  /\ changelog' = [ changelog EXCEPT !.sections[target_section] = new_content ]
  /\ file' = changelog'
  /\ pc' = "done"
  /\ UNCHANGED << runs, argv, args, target_section, new_content, hook_data,
                  new_hook_data, error >>

\* The script is run again, with the same command line, on the file it wrote.
RunAgain ==
  /\ pc = "done"
  /\ runs < MaxRuns
  /\ runs' = runs + 1
  /\ pc' = "main"
  /\ args' = NoArgs
  /\ target_section' = "unset"
  /\ changelog' = NoChangelog
  /\ new_content' = <<>>
  /\ hook_data' = <<>>
  /\ new_hook_data' = <<>>
  /\ error' = "none"
  /\ UNCHANGED << file, argv >>

Next ==
  \/ Main
  \/ GetChangelog
  \/ GetChangelogRaises
  \/ ParseChangelog
  \/ ParsePullRequestBody
  \/ MergeHookData
  \/ AppendGeneratedLines
  \/ WriteChangelog
  \/ RunAgain

Spec == Init /\ [][Next]_vars

(***************************************************************************)
(* What the claims speak of                                                *)
(***************************************************************************)
Min(S) == CHOOSE x \in S : \A y \in S : x <= y

\* The record parse_pull_request_body returned in this run.
PRRecord == parse_pull_request_body(args.pr_body)

\* Before the write step new_content holds the rewritten section: the
\* verbatim lines of the section, then the generated lines.
Verbatim == parse_changelog(changelog, target_section).new_content
Generated == SubSeq(new_content, Len(Verbatim) + 1, Len(new_content))

\* The name a generated line carries: what stands between its back ticks.
LineName(line) == Split(SubSeq(line, 13, Len(line)), BackTick)[1]

Black == <<"b", "l", "a", "c", "k">>
PsfBlack == <<"p", "s", "f", "/", "b", "l", "a", "c", "k">>

\* C1: every hook of the prior record whose name is not a case-insensitive
\* substring of a name the pull request body yielded has, in the rewritten
\* section, a generated line with its recorded version.
C1_PriorCarriedForward ==
  pc = "write" =>
    \A pr \in { PRRecord }, lines \in { Range(Generated) } :
      \A i \in 1..Len(hook_data) :
        ~ AnyContains(pr, hook_data[i].k)
          => FormatLine(hook_data[i].k, hook_data[i].v) \in lines

\* C2 as stated: when a prior name is a case-insensitive substring of a
\* pull request name, the section has the generated line of the pull
\* request name with its new version, and no generated line with the prior
\* name and the prior version.
C2_NoLineWithPriorVersion ==
  pc = "write" =>
    \A pr \in { PRRecord }, lines \in { Range(Generated) } :
      \A i \in 1..Len(hook_data), j \in 1..Len(pr) :
        Contains(Lower(pr[j].k), Lower(hook_data[i].k))
          => /\ FormatLine(pr[j].k, pr[j].v) \in lines
             /\ FormatLine(hook_data[i].k, hook_data[i].v) \notin lines

\* C2 as amended: when a prior name is a case-insensitive substring of a
\* pull request name, the section has the generated line of the pull
\* request name with its new version, and a generated line with the prior
\* name is there only if the pull request records that very name, and
\* carries the version the pull request gives it.
C2_PullRequestVersionWins ==
  pc = "write" =>
    \A pr \in { PRRecord }, lines \in { Range(Generated) } :
      \A i \in 1..Len(hook_data), j \in 1..Len(pr) :
        Contains(Lower(pr[j].k), Lower(hook_data[i].k))
          => /\ FormatLine(pr[j].k, pr[j].v) \in lines
             /\ \A g \in lines :
                  LineName(g) = hook_data[i].k
                    => /\ DictHas(pr, hook_data[i].k)
                       /\ g = FormatLine(hook_data[i].k, DictGet(pr, hook_data[i].k))

\* A short prior name is superseded by a longer pull request name with
\* another version.
C2_Witness ==
  /\ pc = "write"
  /\ \E pr \in { PRRecord }, lines \in { Range(Generated) } :
       \E i \in 1..Len(hook_data), j \in 1..Len(pr) :
         /\ Contains(Lower(pr[j].k), Lower(hook_data[i].k))
         /\ pr[j].k # hook_data[i].k
         /\ pr[j].v # hook_data[i].v
         /\ FormatLine(pr[j].k, pr[j].v) \in lines
         /\ \A g \in lines : LineName(g) # hook_data[i].k

\* C3: the section main passes to udpate_changelog_from_pr_body is the
\* value of --target-section (repository when the option is omitted).
C3_SectionIsOption ==
  pc # "main" => target_section = args.target_section

\* The end-to-end example, before the write step of its first run.
IsExample ==
  /\ pc = "write"
  /\ runs = 1
  /\ args.pr_body = ExampleBody
  /\ changelog.sections["repository"] = << ExampleItem >>

\* C4 as stated: in the example the rewritten section has exactly one
\* generated line, that of psf/black at 23.0.0, and no line for black.
C4_ExampleYieldsPsfBlack ==
  IsExample =>
    /\ Generated = << FormatLine(PsfBlack, <<"2", "3", ".", "0", ".", "0">>) >>
    /\ \A g \in Range(new_content) : g # ExampleItem /\ LineName(g) # Black

\* C4 as amended: in the example the pull request line yields no entry
\* (its bracketed label does not start with a URL), and the rewritten
\* section has exactly one generated line, that of black at 22.1.0.
C4_ExampleKeepsBlack ==
  IsExample =>
    /\ PRRecord = <<>>
    /\ Generated = << FormatLine(Black, <<"2", "2", ".", "1", ".", "0">>) >>
    /\ new_content = << FormatLine(Black, <<"2", "2", ".", "1", ".", "0">>) >>

C4_Witness == IsExample /\ Len(new_content) = 1 /\ hook_data # <<>>

\* The lower case names of the generated lines, in their order.
GeneratedLowerNames ==
  { [ i \in DOMAIN g |-> Lower(LineName(g[i])) ] : g \in { Generated } }

\* C5 as stated: the names of consecutive generated lines are strictly
\* increasing when compared in lower case.
C5_StrictlyOrdered ==
  pc = "write" =>
    \A names \in GeneratedLowerNames :
      \A i \in 1..(Len(names) - 1) : StrLess(names[i], names[i + 1])

\* C5 as amended: the names of consecutive generated lines never decrease
\* when compared in lower case, and no two generated lines carry the same
\* name (two names that differ only in case both have their line).
C5_OrderedAndDistinct ==
  pc = "write" =>
    \A names \in GeneratedLowerNames, g \in { Generated } :
      /\ \A i \in 1..(Len(names) - 1) : ~ StrLess(names[i + 1], names[i])
      /\ \A i, j \in 1..Len(g) : i # j => LineName(g[i]) # LineName(g[j])

\* Two generated lines whose names differ only in case.
C5_Witness ==
  /\ pc = "write"
  /\ \E g \in { Generated } :
       \E i \in 1..(Len(g) - 1) :
         /\ LineName(g[i]) # LineName(g[i + 1])
         /\ Lower(LineName(g[i])) = Lower(LineName(g[i + 1]))

\* The lines between the first start marker and the first end marker after
\* it (all lines after the start marker when no end marker follows).
Region(body) ==
  LET starts == { i \in 1..Len(body) : Strip(body[i]) = pr_body_marker_start }
  IN IF starts = {} THEN <<>>
     ELSE LET ends == { j \in (Min(starts) + 1)..Len(body) :
                          Strip(body[j]) = pr_body_marker_end }
          IN SubSeq(body, Min(starts) + 1,
                    IF ends = {} THEN Len(body) ELSE Min(ends) - 1)

\* The mapping the lines yield, each read on its own, in their order.
RECURSIVE RecordOf(_, _, _)
RecordOf(lines, i, record) ==
  IF i > Len(lines) THEN record
  ELSE RecordOf(lines, i + 1, HookLineUpdate(lines[i], record))

IsUpdateLine(line) == HookLineUpdate(line, <<>>) # <<>>

\* C6: the mapping parse_pull_request_body returns is the one the lines
\* between the first start marker and the first end marker after it yield;
\* no line outside them adds or changes an entry.
C6_OnlyBetweenMarkers ==
  pc = "merge" =>
    \A region \in { Region(args.pr_body) } : new_hook_data = RecordOf(region, 1, <<>>)

\* An update line before the first start marker, and one after the end
\* marker and a second start marker, and neither is in the mapping.
C6_Witness ==
  /\ pc = "merge"
  /\ new_hook_data = <<>>
  /\ \E i, j, k, l \in 1..Len(args.pr_body) :
       /\ i < j /\ j < k /\ k < l
       /\ Strip(args.pr_body[i]) = pr_body_marker_start
       /\ Strip(args.pr_body[j]) = pr_body_marker_end
       /\ Strip(args.pr_body[k]) = pr_body_marker_start
       /\ IsUpdateLine(args.pr_body[l])

IsHookItem(item) == ReMatch(ChangelogHookRegex, item).ok
IsVerbatimItem(item) == item # <<>> /\ ~ IsHookItem(item)
SectionItems == changelog.sections[target_section]

\* C7: the verbatim list is the non-empty lines that do not match the
\* hook update pattern, in their order; the name of every line that
\* matches is a key of the hook mapping and the line is not in the list;
\* the empty line is in neither; every key of the mapping is the name of a
\* line that matches.
C7_Partition ==
  pc = "parse_pull_request_body" =>
    \A items \in { SectionItems } :
      \A m \in { [ i \in 1..Len(items) |-> ReMatch(ChangelogHookRegex, items[i]) ] } :
        /\ new_content
             = [ n \in 1..Cardinality({ i \in 1..Len(items) : items[i] # <<>> /\ ~ m[i].ok })
                   |-> items[CHOOSE i \in 1..Len(items) :
                               /\ items[i] # <<>> /\ ~ m[i].ok
                               /\ Cardinality({ h \in 1..i : items[h] # <<>> /\ ~ m[h].ok }) = n] ]
        /\ \A i \in 1..Len(items) :
             m[i].ok => /\ DictHas(hook_data, m[i].caps[1])
                        /\ items[i] \notin Range(new_content)
        /\ <<>> \notin Range(new_content)
        /\ \A h \in 1..Len(hook_data) :
             \E i \in 1..Len(items) : m[i].ok /\ m[i].caps[1] = hook_data[h].k

\* A section with a hook update, a note and an empty line.
C7_Witness ==
  /\ pc = "parse_pull_request_body"
  /\ \E i, j, k \in 1..Len(SectionItems) :
       /\ IsHookItem(SectionItems[i])
       /\ IsVerbatimItem(SectionItems[j])
       /\ SectionItems[k] = <<>>
  /\ Len(new_content) = 1
  /\ Len(hook_data) = 1

\* The key of the semantically highest version.
HighestKey(keys) ==
  CHOOSE k \in Range(keys) :
    \A o \in Range(keys) :
      o = k \/ SemanticLess(clean_version_str(o), clean_version_str(k))

\* C8: for a changelog with version entries and no unreleased entry,
\* get_changelog prepends an unreleased entry whose compare URL names the
\* key of the semantically highest version.
C8_UrlNamesHighestVersion ==
  ( /\ pc = "parse_changelog"
    /\ file.keys # <<>>
    /\ Unreleased \notin Range(file.keys) )
  => /\ changelog.keys = << Unreleased >> \o file.keys
     /\ changelog.url = CompareUrl(HighestKey(file.keys))

\* C9: on a changelog with no unreleased entry and no version entry the
\* run goes no further than get_changelog, which fails with the indexing
\* error; the write step is not reached and the file stays as it is.
C9_NoHistoryFails ==
  [][ file.keys = <<>>
        => /\ file' = file
           /\ pc' \in { "get_changelog", "failed" }
           /\ pc' = "failed" => error' = "IndexError" ]_vars

C9_Witness == pc = "failed" /\ error = "IndexError" /\ file.keys = <<>>

\* C10: the second run, on the file the first run wrote and with the same
\* pull request body, assigns the section the list the first run assigned.
C10_SecondRunSame ==
  (runs = 2 /\ pc = "write") => new_content = file.sections[target_section]

====
